---- MODULE Spec2Model ----
(***************************************************************************)
(* Pipeline risk predictor (src/ai-model/risk_predictor.py) and the Flask  *)
(* server that publishes it (src/ai-model/api_server.py).                  *)
(*                                                                         *)
(* A DataFrame is a record [columns, nrows, values]: the set of column     *)
(* names, the number of rows, and for each column the sequence of its      *)
(* cells. Numbers are integers; probabilities are in thousandths. Strings  *)
(* of categorical cells are ordered by StringOrder, which stands for the   *)
(* order np.unique sorts them in.                                          *)
(***************************************************************************)
EXTENDS Integers, Sequences, FiniteSets, TLC

Range(s) == {s[i] : i \in DOMAIN s}

IndexOf(s, x) == CHOOSE i \in DOMAIN s : s[i] = x

RECURSIVE SumSeq(_)
SumSeq(s) == IF s = <<>> THEN 0 ELSE Head(s) + SumSeq(Tail(s))

Abs(x) == IF x < 0 THEN 0 - x ELSE x

(***************************************************************************)
(* Bounds of the model.                                                    *)
(***************************************************************************)
\* calls made on the predictor objects of the library specification
MaxCalls == 3
\* training runs on one predictor object
MaxTrains == 2
\* requests the server handles
MaxRequests == 2

(***************************************************************************)
(* PipelineRiskPredictor.__init__                                          *)
(***************************************************************************)
numerical_features ==
    << "age_years", "diameter", "pressure_rating", "length_km",
       "depth_avg", "temperature_avg", "corrosion_rate",
       "soil_resistivity", "cathodic_protection_level",
       "wall_thickness", "operating_pressure" >>

categorical_features ==
    << "material", "coating_type", "environment_type",
       "soil_type", "installation_method" >>

risk_factors ==
    << "corrosion_severity", "depth_variation", "pressure_fluctuation",
       "temperature_variation", "external_damage_risk" >>

ModelNames == <<"random_forest", "gradient_boosting">>

UnfittedModel == [fitted |-> FALSE, n_features_in_ |-> 0, X_fit |-> <<>>, y_fit |-> <<>>]

UnfittedScaler == [fitted |-> FALSE, feature_names_in_ |-> <<>>, n_samples_seen_ |-> 0, sum_ |-> <<>>]

\* a key that is not in the label_encoders dict
NoEncoder == [present |-> FALSE, classes_ |-> <<>>]

\* a key that is not in the feature_importance dict
NoImportance == [present |-> FALSE, table |-> <<>>]

NewPredictor ==
    [ models |-> [n \in Range(ModelNames) |-> UnfittedModel],
      scaler |-> UnfittedScaler,
      label_encoders |-> [f \in Range(categorical_features) |-> NoEncoder],
      feature_importance |-> [n \in Range(ModelNames) |-> NoImportance],
      is_trained |-> FALSE ]

(***************************************************************************)
(* Cells. A missing cell of a categorical column is Missing, and           *)
(* astype(str) renders it as the string "nan"; a missing cell of a numeric *)
(* column is NaN.                                                          *)
(***************************************************************************)
Missing == "<missing>"

NaN == -1

StringOrder == <<"Carbon Steel", "HDPE", "nan">>

astype_str(v) == IF v = Missing THEN "nan" ELSE v

Rank(s) == CHOOSE i \in DOMAIN StringOrder : StringOrder[i] = s

\* np.unique: the distinct values, sorted
RECURSIVE np_unique(_)
np_unique(S) ==
    IF S = {} THEN <<>>
    ELSE LET m == CHOOSE x \in S : \A y \in S : Rank(x) <= Rank(y)
         IN  <<m>> \o np_unique(S \ {m})

\* the year pd.to_datetime('now') falls in
Now == 2026

WithColumn(df, name, cells) ==
    [ columns |-> df.columns \cup {name},
      nrows |-> df.nrows,
      values |-> [c \in df.columns \cup {name} |->
                    IF c = name THEN cells ELSE df.values[c]] ]

Rows(df) == 1 .. df.nrows

\* a / b cell by cell; a zero or missing denominator gives an undefined cell
Ratio(a, b) ==
    [i \in DOMAIN a |->
        IF a[i] = NaN \/ b[i] = NaN \/ b[i] = 0 THEN NaN
        ELSE a[i] \div b[i]]

RECURSIVE SeqMax(_)
SeqMax(s) ==
    IF Len(s) = 1 THEN s[1]
    ELSE LET m == SeqMax(Tail(s)) IN IF s[1] > m THEN s[1] ELSE m

(***************************************************************************)
(* engineer_features: every derivation is gated by the presence of its     *)
(* input columns. Of the derived columns only age_years is a declared      *)
(* feature; the others never reach the matrix prepare_data builds.         *)
(***************************************************************************)
engineer_age(df, e) ==
    IF "installation_date" \in df.columns
    THEN WithColumn(e, "age_years",
            [i \in Rows(df) |-> Now - df.values["installation_date"][i]])
    ELSE e

engineer_pressure_ratio(df, e) ==
    IF "operating_pressure" \in df.columns /\ "pressure_rating" \in df.columns
    THEN WithColumn(e, "pressure_ratio",
            Ratio(e.values["operating_pressure"], e.values["pressure_rating"]))
    ELSE e

engineer_wall_ratio(df, e) ==
    IF "current_wall_thickness" \in df.columns /\ "original_wall_thickness" \in df.columns
    THEN WithColumn(e, "wall_thickness_ratio",
            Ratio(e.values["current_wall_thickness"], e.values["original_wall_thickness"]))
    ELSE e

engineer_corrosion(df, e) ==
    IF "corrosion_rate" \in df.columns /\ "age_years" \in e.columns
    THEN WithColumn(e, "corrosion_acceleration",
            [i \in Rows(df) |-> e.values["corrosion_rate"][i] * e.values["age_years"][i]])
    ELSE e

engineer_risk(df, e) ==
    IF Range(risk_factors) \subseteq df.columns
    THEN LET row(i) == [k \in DOMAIN risk_factors |-> e.values[risk_factors[k]][i]]
             e1 == WithColumn(e, "composite_risk_score",
                      [i \in Rows(df) |-> SumSeq(row(i)) \div Len(risk_factors)])
         IN  WithColumn(e1, "max_risk_factor", [i \in Rows(df) |-> SeqMax(row(i))])
    ELSE e

environmental_factors == <<"temperature_avg", "soil_resistivity", "depth_avg">>

\* n * (x - mean) stands for the z-score (x - mean) / std
RECURSIVE engineer_normalized(_, _, _)
engineer_normalized(df, e, k) ==
    IF k > Len(environmental_factors) THEN e
    ELSE LET f == environmental_factors[k]
         IN  IF f \in df.columns
             THEN engineer_normalized(df,
                    WithColumn(e, f \o "_normalized",
                        [i \in Rows(df) |-> df.nrows * e.values[f][i] - SumSeq(e.values[f])]),
                    k + 1)
             ELSE engineer_normalized(df, e, k + 1)

engineer_environment(df, e) ==
    LET avail == SelectSeq(environmental_factors, LAMBDA f : f \in df.columns)
        n == engineer_normalized(df, e, 1)
    IN  IF avail # <<>>
        THEN WithColumn(n, "environmental_stress",
                [i \in Rows(df) |->
                    SumSeq([k \in DOMAIN avail |-> Abs(n.values[avail[k] \o "_normalized"][i])])
                        \div Len(avail)])
        ELSE e

engineer_features(df) ==
    engineer_environment(df,
      engineer_risk(df,
        engineer_corrosion(df,
          engineer_wall_ratio(df,
            engineer_pressure_ratio(df,
              engineer_age(df, df))))))

(***************************************************************************)
(* sklearn.preprocessing.LabelEncoder                                      *)
(***************************************************************************)
Codes(classes, col) == [i \in DOMAIN col |-> IndexOf(classes, col[i]) - 1]

LabelEncoder_fit_transform(col) ==
    LET classes == np_unique(Range(col))
    IN  [classes_ |-> classes, codes |-> Codes(classes, col)]

\* raises ValueError when col holds a label that is not in classes_
LabelEncoder_transform(classes, col) ==
    IF \E i \in DOMAIN col : col[i] \notin Range(classes)
    THEN [err |-> "ValueError", codes |-> <<>>]
    ELSE [err |-> "none", codes |-> Codes(classes, col)]

\* mutant: the fallback is the last class
most_common_last(classes) == classes[Len(classes)]

\* the fallback class of prepare_data's except branch: classes_[0]
most_common(classes) == classes[1]

\* prepare_data, the else branch of the categorical loop: transform with the
\* fitted encoder; on ValueError substitute the unseen values and transform again
encode_fitted(classes, col) ==
    LET strs == [i \in DOMAIN col |-> astype_str(col[i])]
        first == LabelEncoder_transform(classes, strs)
    IN  IF first.err = "none" THEN first
        ELSE IF classes = <<>> THEN [err |-> "IndexError", codes |-> <<>>]
        ELSE LabelEncoder_transform(classes,
                [i \in DOMAIN strs |->
                    IF strs[i] \in Range(classes) THEN strs[i] ELSE most_common(classes)])

\* mutant: the encoder is fitted on every call
encode_feature_refit(encoders, df, f) ==
    IF f \notin df.columns THEN [label_encoders |-> encoders, df |-> df, err |-> "none"]
    ELSE LET ft == LabelEncoder_fit_transform(
                      [i \in Rows(df) |-> astype_str(df.values[f][i])])
         IN  [ label_encoders |->
                  [encoders EXCEPT ![f] = [present |-> TRUE, classes_ |-> ft.classes_]],
               df |-> WithColumn(df, f, ft.codes),
               err |-> "none" ]

\* prepare_data, one pass of the categorical loop for feature f:
\* [label_encoders, df, err]
encode_feature(encoders, df, f) ==
    IF f \notin df.columns THEN [label_encoders |-> encoders, df |-> df, err |-> "none"]
    ELSE IF ~encoders[f].present
    THEN LET ft == LabelEncoder_fit_transform(
                      [i \in Rows(df) |-> astype_str(df.values[f][i])])
         IN  [ label_encoders |->
                  [encoders EXCEPT ![f] = [present |-> TRUE, classes_ |-> ft.classes_]],
               df |-> WithColumn(df, f, ft.codes),
               err |-> "none" ]
    ELSE LET t == encode_fitted(encoders[f].classes_, df.values[f])
         IN  [ label_encoders |-> encoders,
               df |-> IF t.err = "none" THEN WithColumn(df, f, t.codes) ELSE df,
               err |-> t.err ]

\* prepare_data, the categorical loop from feature k on
RECURSIVE encode_categoricals(_, _, _)
encode_categoricals(encoders, df, k) ==
    IF k > Len(categorical_features)
    THEN [label_encoders |-> encoders, df |-> df, err |-> "none"]
    ELSE LET one == encode_feature(encoders, df, categorical_features[k])
         IN  IF one.err # "none" THEN one
             ELSE encode_categoricals(one.label_encoders, one.df, k + 1)

(***************************************************************************)
(* sklearn.preprocessing.StandardScaler. The statistics are kept as the    *)
(* sample count and the column sums; n * x - sum stands for the scaled     *)
(* value (x - mean) / std.                                                 *)
(***************************************************************************)
Scaled(scaler, X) ==
    [j \in DOMAIN X.columns |->
        [i \in 1 .. X.nrows |->
            scaler.n_samples_seen_ * X.values[j][i] - scaler.sum_[j]]]

StandardScaler_fit(X) ==
    [ fitted |-> TRUE,
      feature_names_in_ |-> X.columns,
      n_samples_seen_ |-> X.nrows,
      sum_ |-> [j \in DOMAIN X.columns |-> SumSeq(X.values[j])] ]

\* transform validates the input against the fitted columns: a different
\* number of columns is a ValueError in every release; a different list of
\* names of the same length is a ValueError only in the releases that
\* validate feature names (check_names)
StandardScaler_transform(scaler, X, check_names) ==
    IF ~scaler.fitted THEN [err |-> "NotFittedError", X_scaled |-> <<>>]
    ELSE IF Len(X.columns) # Len(scaler.feature_names_in_)
    THEN [err |-> "ValueError", X_scaled |-> <<>>]
    ELSE IF check_names /\ X.columns # scaler.feature_names_in_
    THEN [err |-> "ValueError", X_scaled |-> <<>>]
    ELSE [err |-> "none", X_scaled |-> Scaled(scaler, X)]

\* the median of the cells that are not missing (the lower one of two)
Median(cells) ==
    LET have == {i \in DOMAIN cells : cells[i] # NaN}
    IN  IF have = {} THEN NaN
        ELSE cells[CHOOSE i \in have :
                /\ 2 * Cardinality({j \in have : cells[j] < cells[i]}) < Cardinality(have)
                /\ 2 * Cardinality({j \in have : cells[j] <= cells[i]}) >= Cardinality(have)]

fillna_median(cells) ==
    [i \in DOMAIN cells |-> IF cells[i] = NaN THEN Median(cells) ELSE cells[i]]

DeclaredFeatures == numerical_features \o categorical_features

\* the declared features that are columns of the table, in declared order
available_in(columns) == SelectSeq(DeclaredFeatures, LAMBDA f : f \in columns)

None == [column |-> "None", values |-> <<>>]

\* mutant: the binary outcome column is preferred
target_of_incident_first(df) ==
    IF "incident_occurred" \in df.columns
    THEN [column |-> "incident_occurred", values |-> df.values["incident_occurred"]]
    ELSE IF "failure_probability" \in df.columns
    THEN [column |-> "failure_probability", values |-> df.values["failure_probability"]]
    ELSE None

target_of(df) ==
    IF "failure_probability" \in df.columns
    THEN [column |-> "failure_probability", values |-> df.values["failure_probability"]]
    ELSE IF "incident_occurred" \in df.columns
    THEN [column |-> "incident_occurred", values |-> df.values["incident_occurred"]]
    ELSE None

NoMatrix == [columns |-> <<>>, nrows |-> 0, values |-> <<>>]

(***************************************************************************)
(* prepare_data(self, df): the predictor after the call (the encoders and  *)
(* the scaler are changed in place, also when the call raises), the        *)
(* columns of the matrix handed to the scaler, the scaled matrix, the      *)
(* target and the error raised.                                            *)
(***************************************************************************)
Prepared(s, encoded, x, xs, y, e) ==
    [self |-> s, encoded |-> encoded, X |-> x, X_scaled |-> xs, y |-> y, err |-> e]

\* X = df_prepared[available_features].fillna(df_prepared.median())
feature_matrix(encoded, available_features) ==
    [ columns |-> available_features,
      nrows |-> encoded.nrows,
      values |-> [j \in DOMAIN available_features |->
                    fillna_median(encoded.values[available_features[j]])] ]

\* prepare_data from "if not available_features" on; tr is what
\* self.scaler.transform(X) gives and fitted the scaler fit_transform(X) leaves
prepare_scaled(self1, is_trained, encoded, X, tr, fitted) ==
    IF X.columns = <<>>
    THEN Prepared(self1, encoded, NoMatrix, <<>>, None, "NoUsableFeatures")
    ELSE IF is_trained
    THEN IF tr.err # "none" THEN Prepared(self1, encoded, X, <<>>, None, tr.err)
         ELSE Prepared(self1, encoded, X, tr.X_scaled, target_of(encoded), "none")
    ELSE Prepared([self1 EXCEPT !.scaler = fitted], encoded, X, Scaled(fitted, X),
                  target_of(encoded), "none")

\* prepare_data after the loop over the categorical features; enc is what
\* the loop left
prepare_encoded(self, enc, check_names, X) ==
    IF enc.err # "none"
    THEN Prepared([self EXCEPT !.label_encoders = enc.label_encoders], enc.df,
                  NoMatrix, <<>>, None, enc.err)
    ELSE prepare_scaled([self EXCEPT !.label_encoders = enc.label_encoders],
                        self.is_trained, enc.df, X,
                        StandardScaler_transform(self.scaler, X, check_names),
                        StandardScaler_fit(X))

prepare_engineered(self, enc, check_names) ==
    prepare_encoded(self, enc, check_names,
                    feature_matrix(enc.df, available_in(enc.df.columns)))

prepare_data(self, df, check_names) ==
    prepare_engineered(self,
                       encode_categoricals(self.label_encoders, engineer_features(df), 1),
                       check_names)

(***************************************************************************)
(* The regressors. A fitted regressor is a deterministic function of the   *)
(* matrix and target it was fitted on (random_state=42) and of the row it  *)
(* scores; RowScore stands for that function, in thousandths.              *)
(***************************************************************************)
RegressorFit(X_scaled, ncols, y) ==
    [fitted |-> TRUE, n_features_in_ |-> ncols, X_fit |-> X_scaled, y_fit |-> y.values]

Weighted(s) == SumSeq([i \in DOMAIN s |-> i * s[i]])

RowScore(name, model, X_scaled, i) ==
    ( 500 + SumSeq(model.y_fit)
          + 7 * SumSeq([j \in DOMAIN model.X_fit |-> Weighted(model.X_fit[j])])
          + 13 * SumSeq([j \in DOMAIN X_scaled |-> j * X_scaled[j][i]])
          + (IF name = "gradient_boosting" THEN 60 * i ELSE 0) ) % 1001

RegressorPredict(name, model, X_scaled, nrows) ==
    IF ~model.fitted THEN [err |-> "NotFittedError", values |-> <<>>]
    ELSE IF Len(X_scaled) # model.n_features_in_ THEN [err |-> "ValueError", values |-> <<>>]
    ELSE [err |-> "none", values |-> [i \in 1 .. nrows |-> RowScore(name, model, X_scaled, i)]]

\* dict(zip(available_features, model.feature_importances_)): the k-th name is
\* paired with the importance of the k-th column of the training matrix
zip_importance(names, X_columns) ==
    [k \in 1 .. (IF Len(names) < Len(X_columns) THEN Len(names) ELSE Len(X_columns)) |->
        [feature |-> names[k], importance_of |-> X_columns[k]]]

\* where a training run may raise inside sklearn (the stratified split, a
\* fit, the cross-validation of a fitted model)
NoFailure == [at |-> "none", model |-> "none"]

TrainFailures ==
    {NoFailure, [at |-> "split", model |-> "none"]}
        \cup {[at |-> a, model |-> n] : a \in {"fit", "evaluate"}, n \in Range(ModelNames)}

\* train, the loop over self.models from the k-th model on, and the
\* assignment of is_trained after it
RECURSIVE fit_models(_, _, _, _, _)
fit_models(self, p, names, fail, k) ==
    IF k > Len(ModelNames)
    THEN [self |-> [self EXCEPT !.is_trained = TRUE], err |-> "none", p |-> p]
    ELSE LET name == ModelNames[k]
             s1 == [self EXCEPT !.models[name] =
                        RegressorFit(p.X_scaled, Len(p.X.columns), p.y)]
             s2 == [s1 EXCEPT !.feature_importance[name] =
                        [present |-> TRUE, table |-> zip_importance(names, p.X.columns)]]
         IN  IF fail = [at |-> "fit", model |-> name]
             THEN [self |-> self, err |-> "TrainingError", p |-> p]
             ELSE IF fail = [at |-> "evaluate", model |-> name]
             THEN [self |-> s1, err |-> "TrainingError", p |-> p]
             ELSE fit_models(s2, p, names, fail, k + 1)

(***************************************************************************)
(* train(self, df): [self, err, p], p being what prepare_data returned.    *)
(***************************************************************************)
train_prepared(p, names, fail) ==
    IF p.err # "none" THEN [self |-> p.self, err |-> p.err, p |-> p]
    ELSE IF p.y = None THEN [self |-> p.self, err |-> "NoTargetVariable", p |-> p]
    ELSE IF fail.at = "split" THEN [self |-> p.self, err |-> "TrainingError", p |-> p]
    ELSE fit_models(p.self, p, names, fail, 1)

train(self, df, check_names, fail) ==
    train_prepared(prepare_data(self, df, check_names), available_in(df.columns), fail)

Clip(x, lo, hi) == IF x < lo THEN lo ELSE IF x > hi THEN hi ELSE x

NoResult == [failure_probability |-> <<>>, confidence_score |-> <<>>,
             individual_predictions |-> <<>>]

NoPrepared == [self |-> NewPredictor, encoded |-> [columns |-> {}, nrows |-> 0, values |-> <<>>],
               X |-> NoMatrix, X_scaled |-> <<>>, y |-> None, err |-> "none"]

\* mutant: the trained flag is checked after prepare_data
predict_checks_late(self, df, check_names) ==
    LET p == prepare_data(self, df, check_names)
    IN  IF ~self.is_trained
        THEN [self |-> p.self, err |-> "ModelNotTrained", p |-> p, result |-> NoResult]
        ELSE [self |-> p.self, err |-> p.err, p |-> p, result |-> NoResult]

(***************************************************************************)
(* predict(self, df): [self, err, p, result]. failure_probability is in    *)
(* ten-thousandths (0.6 * rf + 0.4 * gb of thousandths), confidence_score  *)
(* in thousandths; np.std of two numbers is half their distance.           *)
(***************************************************************************)
\* np.std([p_rf, p_gb], axis=0) * 2: the standard deviation of two numbers
\* is half their distance
pred_std_twice(p_rf, p_gb) == Abs(p_rf - p_gb)

\* mutant: the confidence is not clipped
confidence_unclipped(p_rf, p_gb) == 1000 - pred_std_twice(p_rf, p_gb)

\* confidence = np.clip(1 - (pred_std * 2), 0.1, 1.0), in thousandths
confidence(p_rf, p_gb) == Clip(1000 - pred_std_twice(p_rf, p_gb), 100, 1000)

predict_fails(s, e, q) == [self |-> s, err |-> e, p |-> q, result |-> NoResult]

\* predict from the ensemble on; rf and gb are what the two models return
predict_ensemble(p, rf, gb) ==
    IF rf.err # "none" THEN predict_fails(p.self, rf.err, p)
    ELSE IF gb.err # "none" THEN predict_fails(p.self, gb.err, p)
    ELSE [ self |-> p.self, err |-> "none", p |-> p,
           result |->
             [ failure_probability |->
                 [i \in DOMAIN rf.values |-> 6 * rf.values[i] + 4 * gb.values[i]],
               confidence_score |->
                 [i \in DOMAIN rf.values |->
                     confidence(rf.values[i], gb.values[i])],
               individual_predictions |->
                 [random_forest |-> rf.values, gradient_boosting |-> gb.values] ] ]

\* predict after prepare_data
predict_prepared(self, p, nrows) ==
    IF p.err # "none" THEN predict_fails(p.self, p.err, p)
    ELSE predict_ensemble(p,
             RegressorPredict("random_forest", self.models["random_forest"],
                              p.X_scaled, nrows),
             RegressorPredict("gradient_boosting", self.models["gradient_boosting"],
                              p.X_scaled, nrows))

predict(self, df, check_names) ==
    IF ~self.is_trained THEN predict_fails(self, "ModelNotTrained", NoPrepared)
    ELSE predict_prepared(self, prepare_data(self, df, check_names), df.nrows)

\* get_feature_importance(self)
get_feature_importance(self) ==
    IF ~self.is_trained THEN [err |-> "ModelNotTrained", value |-> <<>>]
    ELSE [err |-> "none", value |-> self.feature_importance]

(***************************************************************************)
(* The artifact store. A file is absent, unreadable (a dump that was cut   *)
(* short) or holds the pickled dict model_data.                            *)
(***************************************************************************)
ArtifactKeys == <<"models", "scaler", "label_encoders", "feature_importance", "is_trained">>

NoFile == [exists |-> FALSE, readable |-> FALSE, keys |-> {}, data |-> NewPredictor]

TruncatedFile == [exists |-> TRUE, readable |-> FALSE, keys |-> {}, data |-> NewPredictor]

\* joblib.dump(model_data, filepath)
joblib_dump(model_data) ==
    [exists |-> TRUE, readable |-> TRUE, keys |-> Range(ArtifactKeys), data |-> model_data]

\* io: "none", or where the write fails: "open" (nothing is written) or
\* "write" (the file is left cut short)
save_model(self, file, io) ==
    IF ~self.is_trained THEN [file |-> file, err |-> "ArtifactNotTrained"]
    ELSE IF io = "open" THEN [file |-> file, err |-> "OSError"]
    ELSE IF io = "write" THEN [file |-> TruncatedFile, err |-> "OSError"]
    ELSE [ file |-> joblib_dump(
                      [ models |-> self.models,
                        scaler |-> self.scaler,
                        label_encoders |-> self.label_encoders,
                        feature_importance |-> self.feature_importance,
                        is_trained |-> self.is_trained ]),
           err |-> "none" ]

\* load_model, the five assignments from the k-th on: model_data[key] raises
\* KeyError when the stored dict has no such key
RECURSIVE restore(_, _, _)
restore(self, file, k) ==
    IF k > Len(ArtifactKeys) THEN [self |-> self, err |-> "none"]
    ELSE IF ArtifactKeys[k] \notin file.keys THEN [self |-> self, err |-> "KeyError"]
    ELSE restore([self EXCEPT ![ArtifactKeys[k]] = file.data[ArtifactKeys[k]]], file, k + 1)

\* mutant: the trained flag is not restored
load_model_keeps_flag(self, file) ==
    IF ~file.exists THEN [self |-> self, err |-> "ArtifactNotFound"]
    ELSE IF ~file.readable THEN [self |-> self, err |-> "UnpicklingError"]
    ELSE LET r == restore(self, file, 1)
         IN  [self |-> [r.self EXCEPT !.is_trained = self.is_trained], err |-> r.err]

load_model(self, file) ==
    IF ~file.exists THEN [self |-> self, err |-> "ArtifactNotFound"]
    ELSE IF ~file.readable THEN [self |-> self, err |-> "UnpicklingError"]
    ELSE restore(self, file, 1)

(***************************************************************************)
(* Post-processing of a single prediction. failure_prob is in              *)
(* ten-thousandths; corrosion_rate cells are in thousandths, age_years     *)
(* cells in years.                                                         *)
(***************************************************************************)
\* pipeline_data.get(key, 0) > limit; a NaN compares False
get_above(df, key, limit) ==
    /\ key \in df.columns
    /\ df.values[key][1] # NaN
    /\ df.values[key][1] > limit

\* mutant: the boundaries belong to the lower tier
_get_risk_level_open(failure_prob) ==
    IF failure_prob > 7000 THEN "critical"
    ELSE IF failure_prob > 5000 THEN "high"
    ELSE IF failure_prob > 3000 THEN "medium"
    ELSE "low"

_get_risk_level(failure_prob) ==
    IF failure_prob >= 7000 THEN "critical"
    ELSE IF failure_prob >= 5000 THEN "high"
    ELSE IF failure_prob >= 3000 THEN "medium"
    ELSE "low"

\* mutant: the base horizon has no floor
_estimate_failure_date_no_floor(failure_prob, df) ==
    LET age_factor == IF get_above(df, "age_years", 25) THEN 8 ELSE 10
        corrosion_factor == IF get_above(df, "corrosion_rate", 100) THEN 7 ELSE 10
    IN  IF failure_prob < 3000 THEN 0
        ELSE (10000 - failure_prob) * age_factor * corrosion_factor

\* the horizon in 1/100000 of a year, 0 standing for None
_estimate_failure_date(failure_prob, df) ==
    LET scaled == 10000 - failure_prob
        base_years == IF scaled > 500 THEN scaled ELSE 500
        age_factor == IF get_above(df, "age_years", 25) THEN 8 ELSE 10
        corrosion_factor == IF get_above(df, "corrosion_rate", 100) THEN 7 ELSE 10
    IN  IF failure_prob < 3000 THEN 0
        ELSE base_years * age_factor * corrosion_factor

_generate_recommendations(failure_prob, df) ==
    [ ladder |-> IF failure_prob > 8000 THEN "urgent"
                 ELSE IF failure_prob > 6000 THEN "within_30_days"
                 ELSE IF failure_prob > 4000 THEN "within_90_days"
                 ELSE "standard",
      age_assessment |-> get_above(df, "age_years", 30),
      corrosion_monitoring |-> get_above(df, "corrosion_rate", 100) ]

NoSingle == [failure_probability |-> -1, confidence_score |-> -1, risk_level |-> "none",
             predicted_failure_date |-> 0,
             recommendations |-> [ladder |-> "none", age_assessment |-> FALSE,
                                  corrosion_monitoring |-> FALSE]]

\* predict_single_pipeline(self, pipeline_data): df is DataFrame([pipeline_data])
single_result(prediction, failure_prob, df) ==
    IF prediction.err # "none"
    THEN [self |-> prediction.self, err |-> prediction.err, p |-> prediction.p,
          result |-> NoResult, single |-> NoSingle]
    ELSE [ self |-> prediction.self, err |-> "none", p |-> prediction.p,
           result |-> prediction.result,
           single |->
             [ failure_probability |-> failure_prob,
               confidence_score |-> prediction.result.confidence_score[1],
               risk_level |-> _get_risk_level(failure_prob),
               predicted_failure_date |-> _estimate_failure_date(failure_prob, df),
               recommendations |-> _generate_recommendations(failure_prob, df) ] ]

predict_single(prediction, df) ==
    single_result(prediction,
                  IF prediction.err # "none" THEN -1
                  ELSE prediction.result.failure_probability[1],
                  df)

predict_single_pipeline(self, df, check_names) ==
    predict_single(predict(self, df, check_names), df)

(***************************************************************************)
(* Input batches. A batch has two rows and a record one; the columns are   *)
(* any of age_years, failure_probability and material. The numeric cells   *)
(* of row i hold i (failure_probability 100 * i thousandths,               *)
(* installation_date the year 2000 + i).                                   *)
(***************************************************************************)
MaterialCells == {"Carbon Steel", "HDPE", Missing}

NumericCell(c, i) ==
    IF c = "failure_probability" THEN 100 * i
    ELSE IF c = "installation_date" THEN 2000 + i
    ELSE IF c = "incident_occurred" THEN i % 2
    ELSE i

\* material = <<>>: no material column
DataFrame(cols, material, n) ==
    [ columns |-> cols \cup (IF material = <<>> THEN {} ELSE {"material"}),
      nrows |-> n,
      values |-> [c \in cols \cup (IF material = <<>> THEN {} ELSE {"material"}) |->
                    IF c = "material" THEN material
                    ELSE [i \in 1 .. n |-> NumericCell(c, i)]] ]

\* the material columns of two rows, up to the order of the rows
MaterialPairs ==
    { m \in MaterialCells \X MaterialCells :
        Rank(astype_str(m[1])) <= Rank(astype_str(m[2])) }

Batches ==
    { DataFrame(cols, material, 2) :
        cols \in SUBSET {"age_years", "failure_probability"},
        material \in {<<>>} \cup MaterialPairs }

Unlabelled == {df \in Batches : "failure_probability" \notin df.columns}

Records ==
    { DataFrame(cols, material, 1) :
        cols \in SUBSET {"age_years"},
        material \in {<<>>} \cup {<<a>> : a \in MaterialCells} }

NoDataFrame == [columns |-> {}, nrows |-> 0, values |-> <<>>]

(***************************************************************************)
(* The library specification: a caller holding a predictor object p and    *)
(* one artifact location makes up to MaxCalls calls; q is a predictor made *)
(* by PipelineRiskPredictor() and load_model(location), as the server's    *)
(* start-up makes it. last records the call just made: its arguments, the  *)
(* object and the file as they were before it, and what it returned or     *)
(* raised. saved is the object state a completed save_model wrote to the   *)
(* location. validates_names tells whether the installed scikit-learn      *)
(* validates feature names.                                                *)
(***************************************************************************)
VARIABLES art, disk, saved, last, calls, validates_names

libvars == <<art, disk, saved, last, calls>>

(***************************************************************************)
(* The state of the server process: the objects it has made (heap), the    *)
(* globals predictor (0 for None) and model_loaded, the file at            *)
(* MODEL_PATH, and the request each worker thread is handling. published   *)
(* records, for an object the server has made available to requests, the   *)
(* state it had at that moment.                                            *)
(***************************************************************************)
VARIABLES heap, published, predictor, model_loaded, model_file, req, requests, booted

apivars == <<heap, published, predictor, model_loaded, model_file, req, requests, booted>>

vars == <<art, disk, saved, last, calls, validates_names,
          heap, published, predictor, model_loaded, model_file, req, requests, booted>>

Threads == {"t1", "t2"}

Idle == [ kind |-> "idle", route |-> "none", pc |-> "idle", df |-> NoDataFrame,
          self |-> 0, new |-> 0, read |-> {},
          used |-> [scaler |-> UnfittedScaler, label_encoders |-> NewPredictor.label_encoders,
                    random_forest |-> UnfittedModel, gradient_boosting |-> UnfittedModel],
          X_scaled |-> <<>>, status |-> 0, error |-> "none" ]

\* module level of api_server.py, before load_model() has run
ApiBoot ==
    /\ heap = <<>>
    /\ published = <<>>
    /\ predictor = 0
    /\ model_loaded = FALSE
    /\ req = [t \in Threads |-> Idle]
    /\ requests = 0
    /\ booted = FALSE

Objects == {"p", "q"}

material_codes(p) ==
    IF "material" \in p.encoded.columns THEN p.encoded.values["material"] ELSE <<>>

Call(op, o, df, err, p, result, single) ==
    [ op |-> op, obj |-> o, df |-> df, err |-> err,
      pre |-> art[o], pre_file |-> disk,
      X_columns |-> p.X.columns, codes |-> material_codes(p),
      prepare_err |-> p.err, target |-> p.y.column,
      result |-> result, single |-> single ]

\* a complete artifact as an earlier run of the program left it
SampleArtifact ==
    train(NewPredictor,
          DataFrame({"age_years", "failure_probability"}, <<"Carbon Steel", "HDPE">>, 2),
          TRUE, NoFailure).self

\* the file without one of the keys of model_data
WithoutKey(file, key) == [file EXCEPT !.keys = @ \ {key}]

InitialFiles ==
    {NoFile, WithoutKey(joblib_dump(SampleArtifact), "feature_importance")}

LibInit ==
    /\ art = [o \in Objects |-> NewPredictor]
    /\ disk \in InitialFiles
    /\ saved = [valid |-> FALSE, self |-> NewPredictor]
    /\ last = [ op |-> "none", obj |-> "p", df |-> NoDataFrame, err |-> "none",
                pre |-> NewPredictor, pre_file |-> NoFile,
                X_columns |-> <<>>, codes |-> <<>>,
                result |-> NoResult, single |-> NoSingle ]
    /\ calls = 0
    /\ validates_names \in BOOLEAN
    /\ ApiBoot
    /\ model_file = NoFile

Train(df) ==
    /\ calls < MaxCalls
    /\ LET r == train(art["p"], df, validates_names, NoFailure)
       IN  /\ art' = [art EXCEPT !["p"] = r.self]
           /\ last' = Call("train", "p", df, r.err, r.p, NoResult, NoSingle)
    /\ calls' = calls + 1
    /\ UNCHANGED <<disk, saved, validates_names>>
    /\ UNCHANGED apivars

Predict(df) ==
    /\ calls < MaxCalls
    /\ LET r == predict(art["p"], df, validates_names)
       IN  /\ art' = [art EXCEPT !["p"] = r.self]
           /\ last' = Call("predict", "p", df, r.err, r.p, r.result, NoSingle)
    /\ calls' = calls + 1
    /\ UNCHANGED <<disk, saved, validates_names>>
    /\ UNCHANGED apivars

PredictSingle(df) ==
    /\ calls < MaxCalls
    /\ LET r == predict_single_pipeline(art["p"], df, validates_names)
       IN  /\ art' = [art EXCEPT !["p"] = r.self]
           /\ last' = Call("predict_single_pipeline", "p", df, r.err, r.p, r.result, r.single)
    /\ calls' = calls + 1
    /\ UNCHANGED <<disk, saved, validates_names>>
    /\ UNCHANGED apivars

GetFeatureImportance ==
    /\ calls < MaxCalls
    /\ last' = Call("get_feature_importance", "p", NoDataFrame,
                    get_feature_importance(art["p"]).err, NoPrepared, NoResult, NoSingle)
    /\ calls' = calls + 1
    /\ UNCHANGED <<art, disk, saved, validates_names>>
    /\ UNCHANGED apivars

SaveModel(io) ==
    /\ calls < MaxCalls
    /\ LET r == save_model(art["p"], disk, io)
       IN  /\ disk' = r.file
           /\ saved' = IF r.err = "none" THEN [valid |-> TRUE, self |-> art["p"]]
                       ELSE IF r.file = disk THEN saved
                       ELSE [valid |-> FALSE, self |-> NewPredictor]
           /\ last' = Call("save_model", "p", NoDataFrame, r.err, NoPrepared, NoResult, NoSingle)
    /\ calls' = calls + 1
    /\ UNCHANGED <<art, validates_names>>
    /\ UNCHANGED apivars

\* p.load_model(location)
LoadModel ==
    /\ calls < MaxCalls
    /\ LET r == load_model(art["p"], disk)
       IN  /\ art' = [art EXCEPT !["p"] = r.self]
           /\ last' = Call("load_model", "p", NoDataFrame, r.err, NoPrepared, NoResult, NoSingle)
    /\ calls' = calls + 1
    /\ UNCHANGED <<disk, saved, validates_names>>
    /\ UNCHANGED apivars

\* q = PipelineRiskPredictor(); q.load_model(location)
LoadFresh ==
    /\ calls < MaxCalls
    /\ LET r == load_model(NewPredictor, disk)
       IN  /\ art' = [art EXCEPT !["q"] = r.self]
           /\ last' = [Call("load_model", "q", NoDataFrame, r.err, NoPrepared, NoResult, NoSingle)
                          EXCEPT !.pre = NewPredictor]
    /\ calls' = calls + 1
    /\ UNCHANGED <<disk, saved, validates_names>>
    /\ UNCHANGED apivars

LibNext ==
    \/ \E df \in Batches : Train(df)
    \/ \E df \in Unlabelled : Predict(df)
    \/ \E df \in Records : PredictSingle(df)
    \/ GetFeatureImportance
    \/ \E io \in {"none", "open", "write"} : SaveModel(io)
    \/ LoadModel
    \/ LoadFresh

LibSpec == LibInit /\ [][LibNext]_vars

(***************************************************************************)
(* Claims about the predictor class, checked under LibSpec.                *)
(***************************************************************************)
InferenceOps == {"predict", "predict_single_pipeline"}

\* C2: a predict, predict_single_pipeline or get_feature_importance call on an
\* object whose trained flag is false raises ModelNotTrained, has prepared
\* no data (no encoding, no matrix) and leaves the object as it was.
C2_UntrainedFailsFirst ==
    (last.op \in InferenceOps \cup {"get_feature_importance"} /\ ~last.pre.is_trained)
        => /\ last.err = "ModelNotTrained"
           /\ art[last.obj] = last.pre
           /\ last.X_columns = <<>>
           /\ last.codes = <<>>

\* C2 witness: a record with a material column was submitted to an object
\* that is not trained but already holds a material encoder.
C2_Witness ==
    /\ last.op = "predict_single_pipeline"
    /\ ~last.pre.is_trained
    /\ "material" \in last.df.columns
    /\ last.pre.label_encoders["material"].present
    /\ last.err = "ModelNotTrained"

SurfacedErrors == {"NoTargetVariable", "NoUsableFeatures", "ModelNotTrained"}

\* C4: a train or predict call that ends in NoTargetVariable, NoUsableFeatures
\* or ModelNotTrained leaves the object exactly as it was before the call.
C4_FailedCallLeavesState ==
    (last.op \in InferenceOps \cup {"train"} /\ last.err \in SurfacedErrors)
        => art[last.obj] = last.pre

\* C5: an inference call on a trained object leaves the set of category
\* encoders, every encoder's mapping and the scaler statistics as they were.
C5_InferenceKeepsEncoders ==
    (last.op \in InferenceOps /\ last.pre.is_trained)
        => /\ art[last.obj].label_encoders = last.pre.label_encoders
           /\ art[last.obj].scaler = last.pre.scaler

\* C6: over train and predict calls an attribute's encoder is fitted at most
\* once: a mapping the object held before a call is the mapping it holds
\* after the call.
C6_EncoderFittedOnce ==
    (last.op \in InferenceOps \cup {"train"})
        => \A f \in Range(categorical_features) :
              last.pre.label_encoders[f].present
                  => art[last.obj].label_encoders[f] = last.pre.label_encoders[f]

\* C6 witness: a second train on an object that held a material mapping
\* succeeded on a batch with a material value outside that mapping.
C6_Witness ==
    /\ last.op = "train"
    /\ last.err = "none"
    /\ last.pre.label_encoders["material"].present
    /\ "material" \in last.df.columns
    /\ \E i \in Rows(last.df) :
          astype_str(last.df.values["material"][i])
              \notin Range(last.pre.label_encoders["material"].classes_)

\* the call ran prepare_data on a batch with a material column while the
\* object held a material mapping
EncodedWithFrozen ==
    /\ last.op \in InferenceOps \cup {"train"}
    /\ last.op = "train" \/ last.pre.is_trained
    /\ "material" \in last.df.columns
    /\ last.pre.label_encoders["material"].present

HoldsFile(self, file) ==
    \A k \in Range(ArtifactKeys) : k \in file.keys /\ self[k] = file.data[k]

\* C8: after a load_model call either all five parts are the stored ones or
\* the call raised and all five parts are as before the call.
C8_LoadAllOrNothing ==
    last.op = "load_model"
        => \/ last.err = "none" /\ HoldsFile(art[last.obj], disk)
           \/ last.err # "none" /\ art[last.obj] = last.pre

\* C9: loading what save_model wrote into a fresh predictor gives the five
\* parts of the saved object, and predict returns for every batch what the
\* saved object returns; save_model on an untrained object raises
\* ArtifactNotTrained and leaves the location as it was.
C9_SaveLoadRoundTrip ==
    /\ (last.op = "load_model" /\ last.obj = "q" /\ last.err = "none" /\ saved.valid)
          => /\ art["q"] = saved.self
             /\ \A df \in Unlabelled :
                   /\ predict(art["q"], df, validates_names).result
                        = predict(saved.self, df, validates_names).result
                   /\ predict(art["q"], df, validates_names).err
                        = predict(saved.self, df, validates_names).err
    /\ (last.op = "save_model" /\ ~last.pre.is_trained)
          => last.err = "ArtifactNotTrained" /\ disk = last.pre_file

\* C9 witness: a trained object with a material encoder was saved and the
\* file loaded into a fresh predictor.
C9_Witness ==
    /\ last.op = "load_model"
    /\ last.obj = "q"
    /\ last.err = "none"
    /\ saved.valid
    /\ saved.self.is_trained
    /\ saved.self.label_encoders["material"].present
    /\ art["q"].is_trained

\* C10: an inference call on a trained object with a batch that has at least
\* one declared attribute hands the scaler the list of columns it was fitted
\* on, and the batch is scored.
C10_FixedColumns ==
    ( /\ last.op \in InferenceOps
      /\ last.pre.is_trained
      /\ available_in(last.df.columns) # <<>> )
        => /\ last.X_columns = last.pre.scaler.feature_names_in_
           /\ last.err = "none"

(***************************************************************************)
(* The server (api_server.py). Flask serves every request on a thread of   *)
(* its own; a step below is a stretch of a handler that touches the shared *)
(* globals or a shared object at most at one point. What a handler does on *)
(* objects only it can reach (the request data, new_predictor before it is *)
(* assigned to the global) is folded into the step that follows.           *)
(***************************************************************************)
\* create_sample_data
SampleData ==
    DataFrame({"age_years", "failure_probability"}, <<"Carbon Steel", "HDPE">>, 2)

\* what fetch_pipeline_data() returns: rows of the pipelines table as the
\* database holds them at that moment, or None (NoDataFrame)
DbBatches ==
    { DataFrame({"age_years"}, <<"Carbon Steel", "HDPE">>, 2),
      DataFrame({"age_years"}, <<"HDPE", Missing>>, 2),
      DataFrame({"age_years"}, <<>>, 2) }

\* what fetch_pipeline_data(pipeline_id) returns
DbRows == {DataFrame({"age_years"}, <<"HDPE">>, 1)}

\* the JSON bodies of POST /predict
JsonBodies ==
    { DataFrame({"age_years"}, <<"Carbon Steel">>, 1),
      DataFrame({"age_years"}, <<>>, 1) }

RouteData(route) ==
    IF route = "/predict" THEN JsonBodies \cup {NoDataFrame}
    ELSE IF route = "/predict/pipeline" THEN DbRows \cup {NoDataFrame}
    ELSE IF route = "/batch/predict" THEN DbBatches \cup {NoDataFrame}
    ELSE {NoDataFrame}

InferenceRoutes == {"/predict", "/predict/pipeline", "/batch/predict"}

Unpublished == [is |-> FALSE, snap |-> NewPredictor]

ApiInitialFiles ==
    { NoFile,
      joblib_dump(SampleArtifact),
      WithoutKey(joblib_dump(SampleArtifact), "feature_importance") }

ApiInit ==
    /\ ApiBoot
    /\ model_file \in ApiInitialFiles
    /\ validates_names \in BOOLEAN
    /\ art = [o \in Objects |-> NewPredictor]
    /\ disk = NoFile
    /\ saved = [valid |-> FALSE, self |-> NewPredictor]
    /\ last = [ op |-> "none", obj |-> "p", df |-> NoDataFrame, err |-> "none",
                pre |-> NewPredictor, pre_file |-> NoFile,
                X_columns |-> <<>>, codes |-> <<>>,
                result |-> NoResult, single |-> NoSingle ]
    /\ calls = 0

Finish(r, status) == [r EXCEPT !.pc = "done", !.status = status]

\* mutant: model_loaded is set whether or not the model could be loaded
Startup_always_loaded(io) ==
    /\ ~booted
    /\ LET loaded == load_model(NewPredictor, model_file)
           trained == train(NewPredictor, SampleData, validates_names, NoFailure)
           written == save_model(trained.self, model_file, io)
       IN  IF model_file.exists
           THEN /\ heap' = <<loaded.self>>
                /\ model_file' = model_file
                /\ model_loaded' = TRUE
           ELSE /\ heap' = <<trained.self>>
                /\ model_file' = written.file
                /\ model_loaded' = TRUE
    /\ predictor' = 1
    /\ published' = <<[is |-> model_loaded', snap |-> heap'[1]]>>
    /\ booted' = TRUE
    /\ UNCHANGED <<req, requests, validates_names>>
    /\ UNCHANGED libvars

\* load_model() of api_server.py, run once before the first request is served
Startup(io) ==
    /\ ~booted
    /\ LET loaded == load_model(NewPredictor, model_file)
           trained == train(NewPredictor, SampleData, validates_names, NoFailure)
           written == save_model(trained.self, model_file, io)
       IN  IF model_file.exists
           THEN /\ heap' = <<loaded.self>>
                /\ model_file' = model_file
                /\ model_loaded' = (loaded.err = "none")
           ELSE /\ heap' = <<trained.self>>
                /\ model_file' = written.file
                /\ model_loaded' = (trained.err = "none" /\ written.err = "none")
    /\ predictor' = 1
    /\ published' = <<[is |-> model_loaded', snap |-> heap'[1]]>>
    /\ booted' = TRUE
    /\ UNCHANGED <<req, requests, validates_names>>
    /\ UNCHANGED libvars

\* a request arrives on a free thread
StartRequest(t, route, df) ==
    /\ booted
    /\ requests < MaxRequests
    /\ req[t].pc \in {"idle", "done"}
    /\ req' = [req EXCEPT ![t] =
                 [Idle EXCEPT !.kind = IF route = "/retrain" THEN "retrain"
                                       ELSE IF route = "/model/info" THEN "info"
                                       ELSE "predict",
                              !.route = route,
                              !.pc = IF route = "/retrain" THEN "train" ELSE "gate",
                              !.df = df]]
    /\ requests' = requests + 1
    /\ UNCHANGED <<heap, published, predictor, model_loaded, model_file, booted, validates_names>>
    /\ UNCHANGED libvars

\* if not model_loaded: return 503
Gate(t) ==
    /\ req[t].pc = "gate"
    /\ req' = [req EXCEPT ![t] =
                 IF ~model_loaded THEN Finish(@, 503)
                 ELSE [@ EXCEPT !.pc = IF req[t].kind = "info" THEN "info" ELSE "bind"]]
    /\ UNCHANGED <<heap, published, predictor, model_loaded, model_file, requests, booted, validates_names>>
    /\ UNCHANGED libvars

\* the request data is there (else 400 / 404), and the handler evaluates the
\* global name predictor, once, for the predict call it makes
Bind(t) ==
    /\ req[t].pc = "bind"
    /\ req' = [req EXCEPT ![t] =
                 IF @.df = NoDataFrame
                 THEN Finish(@, IF @.route = "/predict/pipeline" THEN 404 ELSE 400)
                 ELSE IF predictor = 0 THEN Finish(@, 500)
                 ELSE [@ EXCEPT !.self = predictor, !.pc = "prepare"]]
    /\ UNCHANGED <<heap, published, predictor, model_loaded, model_file, requests, booted, validates_names>>
    /\ UNCHANGED libvars

\* predict: the test of self.is_trained and prepare_data, which reads and
\* may extend self.label_encoders and reads self.scaler
Prepare(t) ==
    /\ req[t].pc = "prepare"
    /\ LET self == heap[req[t].self]
           p == prepare_data(self, req[t].df, validates_names)
       IN  IF ~self.is_trained
           THEN /\ req' = [req EXCEPT ![t] =
                             Finish([@ EXCEPT !.error = "ModelNotTrained"], 500)]
                /\ heap' = heap
           ELSE /\ heap' = [heap EXCEPT ![req[t].self] = p.self]
                /\ req' = [req EXCEPT ![t] =
                             IF p.err # "none"
                             THEN Finish([@ EXCEPT !.read = {"label_encoders"},
                                                   !.used.label_encoders = p.self.label_encoders],
                                         500)
                             ELSE [@ EXCEPT !.read = {"label_encoders", "scaler"},
                                            !.used.label_encoders = p.self.label_encoders,
                                            !.used.scaler = self.scaler,
                                            !.X_scaled = p.X_scaled,
                                            !.pc = "random_forest"]]
    /\ UNCHANGED <<published, predictor, model_loaded, model_file, requests, booted, validates_names>>
    /\ UNCHANGED libvars

\* predict, one pass of the loop over self.models.items(); after the last
\* one the handler builds its response
Score(t, name) ==
    /\ req[t].pc = name
    /\ LET model == heap[req[t].self].models[name]
           r == RegressorPredict(name, model, req[t].X_scaled, req[t].df.nrows)
       IN  req' = [req EXCEPT ![t] =
                     IF r.err # "none" THEN Finish(@, 500)
                     ELSE IF name = "random_forest"
                     THEN [@ EXCEPT !.read = @ \cup {name}, !.used[name] = model,
                                    !.pc = "gradient_boosting"]
                     ELSE IF req[t].route = "/batch/predict"
                     THEN [@ EXCEPT !.read = @ \cup {name}, !.used[name] = model,
                                    !.pc = "levels"]
                     ELSE Finish([@ EXCEPT !.read = @ \cup {name}, !.used[name] = model], 200)]
    /\ UNCHANGED <<heap, published, predictor, model_loaded, model_file, requests, booted, validates_names>>
    /\ UNCHANGED libvars

\* batch_predict, the loop over the rows: predictor._get_risk_level(...)
\* evaluates the global name again; the method reads nothing of the object
Levels(t) ==
    /\ req[t].pc = "levels"
    /\ req' = [req EXCEPT ![t] = IF predictor = 0 THEN Finish(@, 500) ELSE Finish(@, 200)]
    /\ UNCHANGED <<heap, published, predictor, model_loaded, model_file, requests, booted, validates_names>>
    /\ UNCHANGED libvars

\* model_info: predictor.get_feature_importance()
Info(t) ==
    /\ req[t].pc = "info"
    /\ req' = [req EXCEPT ![t] =
                 IF predictor = 0 THEN Finish(@, 500)
                 ELSE IF get_feature_importance(heap[predictor]).err # "none"
                 THEN Finish([@ EXCEPT !.self = predictor,
                                       !.error = get_feature_importance(heap[predictor]).err],
                             500)
                 ELSE Finish([@ EXCEPT !.self = predictor], 200)]
    /\ UNCHANGED <<heap, published, predictor, model_loaded, model_file, requests, booted, validates_names>>
    /\ UNCHANGED libvars

\* retrain_model: the synthetic target, in thousandths:
\* (age / 50) * 0.3 + (0.1 / 0.5) * 0.3 + (3 / 5) * 0.2 + 0.2, clipped to [0, 1]
synthetic_target(df) ==
    [i \in Rows(df) |-> Clip(6 * df.values["age_years"][i] + 380, 0, 1000)]

\* mutant: the published predictor is trained in place
RetrainTrain_in_place(t, fail) ==
    /\ req[t].pc = "train"
    /\ req[t].df # NoDataFrame
    /\ "age_years" \in req[t].df.columns
    /\ predictor # 0
    /\ LET r == train(heap[predictor],
                      WithColumn(req[t].df, "failure_probability", synthetic_target(req[t].df)),
                      validates_names, fail)
       IN  /\ heap' = [heap EXCEPT ![predictor] = r.self]
           /\ req' = [req EXCEPT ![t] =
                        IF r.err # "none" THEN Finish(@, 500)
                        ELSE [@ EXCEPT !.new = predictor, !.pc = "save"]]
    /\ UNCHANGED <<published, predictor, model_loaded, model_file, requests, booted, validates_names>>
    /\ UNCHANGED libvars

\* retrain_model up to new_predictor.train(df): the rows are fetched (none:
\* 400), the target column is added, and a new predictor is made and trained
RetrainTrain(t, fail) ==
    /\ req[t].pc = "train"
    /\ LET df == req[t].df
           r == train(NewPredictor,
                      WithColumn(df, "failure_probability", synthetic_target(df)),
                      validates_names, fail)
       IN  IF df = NoDataFrame
           THEN /\ req' = [req EXCEPT ![t] = Finish(@, 400)]
                /\ UNCHANGED <<heap, published>>
           ELSE IF "age_years" \notin df.columns \/ r.err # "none"
           THEN /\ req' = [req EXCEPT ![t] = Finish(@, 500)]
                /\ UNCHANGED <<heap, published>>
           ELSE /\ heap' = Append(heap, r.self)
                /\ published' = Append(published, Unpublished)
                /\ req' = [req EXCEPT ![t] = [@ EXCEPT !.new = Len(heap) + 1, !.pc = "save"]]
    /\ UNCHANGED <<predictor, model_loaded, model_file, requests, booted, validates_names>>
    /\ UNCHANGED libvars

\* mutant: a save that fails marks the server as having no model
RetrainSave_clears_flag(t, io) ==
    /\ req[t].pc = "save"
    /\ LET r == save_model(heap[req[t].new], model_file, io)
       IN  /\ model_file' = r.file
           /\ model_loaded' = (model_loaded /\ r.err = "none")
           /\ req' = [req EXCEPT ![t] =
                        IF r.err # "none" THEN Finish(@, 500) ELSE [@ EXCEPT !.pc = "swap"]]
    /\ UNCHANGED <<heap, published, predictor, requests, booted, validates_names>>
    /\ UNCHANGED libvars

\* new_predictor.save_model(model_path)
RetrainSave(t, io) ==
    /\ req[t].pc = "save"
    /\ LET r == save_model(heap[req[t].new], model_file, io)
       IN  /\ model_file' = r.file
           /\ req' = [req EXCEPT ![t] =
                        IF r.err # "none" THEN Finish(@, 500) ELSE [@ EXCEPT !.pc = "swap"]]
    /\ UNCHANGED <<heap, published, predictor, model_loaded, requests, booted, validates_names>>
    /\ UNCHANGED libvars

\* predictor = new_predictor
RetrainSwap(t) ==
    /\ req[t].pc = "swap"
    /\ predictor' = req[t].new
    /\ published' = [published EXCEPT ![req[t].new] = [is |-> TRUE, snap |-> heap[req[t].new]]]
    /\ req' = [req EXCEPT ![t].pc = "flag"]
    /\ UNCHANGED <<heap, model_loaded, model_file, requests, booted, validates_names>>
    /\ UNCHANGED libvars

\* model_loaded = True, and the 200 response
RetrainFlag(t) ==
    /\ req[t].pc = "flag"
    /\ model_loaded' = TRUE
    /\ req' = [req EXCEPT ![t] = Finish(@, 200)]
    /\ UNCHANGED <<heap, published, predictor, model_file, requests, booted, validates_names>>
    /\ UNCHANGED libvars

IoOutcomes == {"none", "open", "write"}

Next ==
    \/ \E io \in IoOutcomes : Startup(io)
    \/ \E t \in Threads, route \in InferenceRoutes \cup {"/model/info"} :
          \E df \in RouteData(route) : StartRequest(t, route, df)
    \/ \E t \in Threads, df \in DbBatches \cup {NoDataFrame} : StartRequest(t, "/retrain", df)
    \/ \E t \in Threads : Gate(t)
    \/ \E t \in Threads : Bind(t)
    \/ \E t \in Threads : Prepare(t)
    \/ \E t \in Threads, name \in Range(ModelNames) : Score(t, name)
    \/ \E t \in Threads : Levels(t)
    \/ \E t \in Threads : Info(t)
    \/ \E t \in Threads, fail \in TrainFailures : RetrainTrain(t, fail)
    \/ \E t \in Threads, io \in IoOutcomes : RetrainSave(t, io)
    \/ \E t \in Threads : RetrainSwap(t)
    \/ \E t \in Threads : RetrainFlag(t)

Spec == ApiInit /\ [][Next]_vars

(***************************************************************************)
(* Properties of the server.                                               *)
(***************************************************************************)
Complete(self) ==
    /\ self.is_trained
    /\ self.scaler.fitted
    /\ \A n \in Range(ModelNames) : self.models[n].fitted

\* the parts an inference call has read are those its predictor had when it
\* was published
ReadAsPublished(r, snap) ==
    /\ "scaler" \in r.read => r.used.scaler = snap.scaler
    /\ \A n \in Range(ModelNames) : n \in r.read => r.used[n] = snap.models[n]
    /\ "label_encoders" \in r.read =>
          \A f \in Range(categorical_features) :
              snap.label_encoders[f].present =>
                  r.used.label_encoders[f] = snap.label_encoders[f]

\* C1: however a retrain interleaves with inference requests, the models,
\* the scaler and the encoders an inference call uses are those of one
\* predictor, the one it bound: that predictor had been published fully
\* trained before the call bound it, and its models, its scaler and the
\* encoders it was published with are as they were at publication, whether
\* a retrain has since published another predictor or not. (An encoder the
\* call itself adds for a column unknown at training is not a retrain's
\* doing and is outside this property.)
C1_OneArtifactPerCall ==
    /\ \A t \in Threads :
          req[t].kind = "predict" /\ req[t].self # 0 =>
              /\ published[req[t].self].is
              /\ Complete(published[req[t].self].snap)
              /\ ReadAsPublished(req[t], published[req[t].self].snap)
    /\ \A i \in DOMAIN heap :
          published[i].is =>
              /\ heap[i].models = published[i].snap.models
              /\ heap[i].scaler = published[i].snap.scaler
              /\ heap[i].is_trained = published[i].snap.is_trained

\* an inference call that bound the old predictor answers 200 from it after
\* a retrain has published a new one
C1_Witness ==
    \E t \in Threads :
        /\ req[t].kind = "predict"
        /\ req[t].pc = "done"
        /\ req[t].status = 200
        /\ req[t].read = {"label_encoders", "scaler", "random_forest", "gradient_boosting"}
        /\ req[t].self # predictor

Untouched ==
    /\ predictor' = predictor
    /\ model_loaded' = model_loaded
    /\ \A i \in DOMAIN heap : heap'[i] = heap[i]

\* C3: a retrain that fails (no rows, an error in training, an error in
\* saving) fails before it assigns the global predictor, and no step it has
\* taken up to there changes the global predictor, any predictor object
\* that already exists, or model_loaded.
C3_FailedRetrainLeavesPublished ==
    [][\A t \in Threads :
          /\ ( /\ req[t].kind = "retrain"
               /\ req[t].pc # "done"
               /\ req'[t].pc = "done"
               /\ req'[t].status # 200 ) => req[t].pc \in {"train", "save"}
          /\ ( /\ req[t].pc \in {"train", "save"}
               /\ req'[t] # req[t] ) => Untouched]_vars

\* a retrain has failed in saving, after training, while a trained
\* predictor is published
C3_Witness ==
    \E t \in Threads :
        /\ req[t].kind = "retrain"
        /\ req[t].pc = "done"
        /\ req[t].status = 500
        /\ req[t].new # 0
        /\ model_loaded
        /\ heap[predictor].is_trained

(***************************************************************************)
(* The functions of the predictor that read nothing of the object, called  *)
(* on their own: last holds the call and what it returned.                 *)
(***************************************************************************)
\* per-model predictions, in thousandths
Predictions == {0, 50, 100, 450, 500, 899, 900, 901, 950, 1000}

FnInit ==
    /\ LibInit
    /\ disk = NoFile
    /\ validates_names

Confidence(p_rf, p_gb) ==
    /\ last' = [op |-> "confidence", p_rf |-> p_rf, p_gb |-> p_gb,
                result |-> confidence(p_rf, p_gb)]
    /\ UNCHANGED <<art, disk, saved, calls, validates_names>>
    /\ UNCHANGED apivars

\* C11 as stated: the confidence score is clip(1 - 2 * |p_rf - p_gb|, 0.1, 1.0)
C11_ConfidenceTwiceDistance ==
    last.op = "confidence" =>
        last.result = Clip(1000 - 2 * Abs(last.p_rf - last.p_gb), 100, 1000)

\* C11 amended: the confidence score is clip(1 - |p_rf - p_gb|, 0.1, 1.0),
\* that is 1 minus the distance of the two predictions down to the floor
\* 0.1; it lies in [0.1, 1.0] and no pair of predictions that are further
\* apart has a higher score.
C11_ConfidenceDistance ==
    last.op = "confidence" =>
        /\ last.result >= 100 /\ last.result <= 1000
        /\ Abs(last.p_rf - last.p_gb) <= 900 =>
              last.result = 1000 - Abs(last.p_rf - last.p_gb)
        /\ Abs(last.p_rf - last.p_gb) > 900 => last.result = 100
        /\ \A a \in Predictions, b \in Predictions :
              Abs(a - b) >= Abs(last.p_rf - last.p_gb) => confidence(a, b) <= last.result

\* the two models are 0.95 apart and the score is the floor
C11_Witness ==
    /\ last.op = "confidence"
    /\ Abs(last.p_rf - last.p_gb) = 950
    /\ last.result = 100

\* failure probabilities, in ten-thousandths
FailureProbs ==
    {500 * k : k \in 0 .. 20} \cup {2999, 3001, 4999, 5001, 6999, 7001, 9499, 9501}

GetRiskLevel(failure_prob) ==
    /\ last' = [op |-> "_get_risk_level", failure_prob |-> failure_prob,
                result |-> _get_risk_level(failure_prob)]
    /\ UNCHANGED <<art, disk, saved, calls, validates_names>>
    /\ UNCHANGED apivars

\* C12: the tier is critical from 0.7 on, high from 0.5 up to 0.7, medium
\* from 0.3 up to 0.5 and low below 0.3, each boundary belonging to the
\* tier above it; every probability gets one of the four tiers.
C12_TiersLowerClosed ==
    last.op = "_get_risk_level" =>
        /\ last.result \in {"critical", "high", "medium", "low"}
        /\ last.result = "critical" <=> last.failure_prob >= 7000
        /\ last.result = "high" <=> (last.failure_prob >= 5000 /\ last.failure_prob < 7000)
        /\ last.result = "medium" <=> (last.failure_prob >= 3000 /\ last.failure_prob < 5000)
        /\ last.result = "low" <=> last.failure_prob < 3000

\* a probability on a boundary is in the tier above
C12_Witness ==
    /\ last.op = "_get_risk_level"
    /\ last.failure_prob = 5000
    /\ last.result = "high"

\* pipeline_data: one record with or without age_years (years) and
\* corrosion_rate (thousandths)
PipelineRecord(cols, age, rate) ==
    [ columns |-> cols, nrows |-> 1,
      values |-> [c \in cols |-> IF c = "age_years" THEN <<age>> ELSE <<rate>>] ]

PipelineRecords ==
    { PipelineRecord(cols, age, rate) :
        cols \in SUBSET {"age_years", "corrosion_rate"},
        age \in {25, 26, NaN}, rate \in {100, 101} }

EstimateFailureDate(failure_prob, df) ==
    /\ last' = [op |-> "_estimate_failure_date", failure_prob |-> failure_prob, df |-> df,
                result |-> _estimate_failure_date(failure_prob, df)]
    /\ UNCHANGED <<art, disk, saved, calls, validates_names>>
    /\ UNCHANGED apivars

\* the value pipeline_data.get(key, 0) is compared by; a key that is absent
\* or holds no number counts as 0
ValueOrZero(df, key) ==
    IF key \in df.columns /\ df.values[key][1] # NaN THEN df.values[key][1] ELSE 0

\* C13: no failure date is returned exactly when the probability is below
\* 0.3, which is exactly when the tier is low; otherwise the horizon is
\* max(0.5, (1 - probability) * 10) years times 0.8 if age_years > 25 and
\* times 0.7 if corrosion_rate > 0.1, an absent age_years or corrosion_rate
\* counting as 0; the horizon is positive and at most 7 years. The horizon
\* is in 1/100000 of a year.
C13_FailureHorizon ==
    last.op = "_estimate_failure_date" =>
        /\ last.result = 0 <=> last.failure_prob < 3000
        /\ last.result = 0 <=> _get_risk_level(last.failure_prob) = "low"
        /\ last.failure_prob >= 3000 =>
              /\ last.result =
                    (IF 10000 - last.failure_prob > 500 THEN 10000 - last.failure_prob ELSE 500)
                    * (IF ValueOrZero(last.df, "age_years") > 25 THEN 8 ELSE 10)
                    * (IF ValueOrZero(last.df, "corrosion_rate") > 100 THEN 7 ELSE 10)
              /\ last.result > 0
              /\ last.result <= 700000

\* probability 1, an old and corroding pipeline: the floor of half a year
\* times 0.8 times 0.7
C13_Witness ==
    /\ last.op = "_estimate_failure_date"
    /\ last.failure_prob = 10000
    /\ ValueOrZero(last.df, "age_years") = 26
    /\ ValueOrZero(last.df, "corrosion_rate") = 101
    /\ last.result = 28000

\* raw batches for engineer_features
EngineerBatches ==
    { DataFrame(cols, <<>>, 2) :
        cols \in SUBSET {"age_years", "installation_date", "corrosion_rate"} }

EngineerFeatures(df) ==
    /\ last' = [op |-> "engineer_features", df |-> df, result |-> engineer_features(df)]
    /\ UNCHANGED <<art, disk, saved, calls, validates_names>>
    /\ UNCHANGED apivars

\* C14: age_years is derived from installation_date only when the batch has
\* installation_date and no age_years; a batch that carries age_years keeps
\* the values it supplied.
C14_SuppliedAgeKept ==
    last.op = "engineer_features" /\ "age_years" \in last.df.columns =>
        last.result.values["age_years"] = last.df.values["age_years"]

FnNext ==
    \/ \E p_rf \in Predictions, p_gb \in Predictions : Confidence(p_rf, p_gb)
    \/ \E failure_prob \in FailureProbs : GetRiskLevel(failure_prob)
    \/ \E failure_prob \in FailureProbs, df \in PipelineRecords :
          EstimateFailureDate(failure_prob, df)
    \/ \E df \in EngineerBatches : EngineerFeatures(df)

FnSpec == FnInit /\ [][FnNext]_vars

(***************************************************************************)
(* Training runs on one predictor, over batches that have or lack each of  *)
(* age_years, installation_date, material and the two target columns, with *)
(* the places where sklearn may raise.                                     *)
(***************************************************************************)
TargetColumns == {"failure_probability", "incident_occurred"}

TrainingBatches ==
    { DataFrame(cols, material, 2) :
        cols \in SUBSET ({"age_years", "installation_date"} \cup TargetColumns),
        material \in {<<>>, <<"Carbon Steel", "HDPE">>} }

TrainBatch(df, fail) ==
    /\ calls < MaxTrains
    /\ \E r \in {train(art["p"], df, validates_names, fail)} :
          /\ art' = [art EXCEPT !["p"] = r.self]
          /\ last' = Call("train", "p", df, r.err, r.p, NoResult, NoSingle)
    /\ calls' = calls + 1
    /\ UNCHANGED <<disk, saved, validates_names>>
    /\ UNCHANGED apivars

TrainNext == \E df \in TrainingBatches, fail \in TrainFailures : TrainBatch(df, fail)

TrainSpec == LibInit /\ [][TrainNext]_vars

NoTarget(df) == df.columns \cap TargetColumns = {}

\* C15 as stated: a batch with neither target column makes train fail with
\* NoTargetVariable, whatever its other columns, and the call does not set
\* the trained flag; with both target columns failure_probability is used.
C15_NoTargetVariable ==
    last.op = "train" =>
        /\ NoTarget(last.df) =>
              /\ last.err = "NoTargetVariable"
              /\ art["p"].is_trained = last.pre.is_trained
        /\ TargetColumns \subseteq last.df.columns /\ last.prepare_err = "none" =>
              last.target = "failure_probability"

\* C15 amended: a batch with neither target column makes train fail without
\* setting the trained flag; the failure is NoTargetVariable when
\* prepare_data returns, and otherwise the error prepare_data raises first:
\* NoUsableFeatures for a batch without any usable feature, the scaler's
\* ValueError for an already trained predictor given other columns than it
\* was trained on. With both target columns failure_probability is used.
C15_NoTargetFails ==
    last.op = "train" =>
        /\ NoTarget(last.df) =>
              /\ last.err # "none"
              /\ art["p"].is_trained = last.pre.is_trained
              /\ last.prepare_err = "none" => last.err = "NoTargetVariable"
              /\ last.prepare_err # "none" =>
                    /\ last.err = last.prepare_err
                    /\ last.err \in {"NoUsableFeatures", "ValueError"}
                    /\ last.err = "ValueError" => last.pre.is_trained
              /\ last.df.columns \cap {"age_years", "installation_date", "material"} = {}
                    => last.err = "NoUsableFeatures"
        /\ TargetColumns \subseteq last.df.columns /\ last.prepare_err = "none" =>
              last.target = "failure_probability"

\* a batch with features and no target has been refused with
\* NoTargetVariable by a predictor that is still untrained
C15_Witness ==
    /\ last.op = "train"
    /\ NoTarget(last.df)
    /\ "age_years" \in last.df.columns
    /\ last.err = "NoTargetVariable"
    /\ ~art["p"].is_trained

\* C16: after a successful train the importance table of each model has one
\* entry per column of the training matrix, in the order of the columns,
\* and the k-th importance is stored under the name of the k-th column.
C16_ImportanceKeyedByMatrix ==
    last.op = "train" /\ last.err = "none" =>
        \A n \in Range(ModelNames) :
            /\ art["p"].feature_importance[n].present
            /\ Len(art["p"].feature_importance[n].table) = Len(last.X_columns)
            /\ \A k \in DOMAIN art["p"].feature_importance[n].table :
                  /\ art["p"].feature_importance[n].table[k].feature = last.X_columns[k]
                  /\ art["p"].feature_importance[n].table[k].importance_of = last.X_columns[k]

(***************************************************************************)
(* Properties of the server's globals and of the file at MODEL_PATH.       *)
(***************************************************************************)
\* C17: whenever model_loaded is true the global predictor exists and is
\* trained, after the startup and any successful or failed retrains; no
\* request that passed the model_loaded gate gets ModelNotTrained from the
\* predictor it calls.
C17_LoadedImpliesTrained ==
    /\ model_loaded => predictor # 0 /\ heap[predictor].is_trained
    /\ \A t \in Threads : req[t].error # "ModelNotTrained"

\* the startup left an untrained predictor and model_loaded false; a retrain
\* has since published a trained one, and an inference request was served
C17_Witness ==
    /\ model_loaded
    /\ ~published[1].is
    /\ ~heap[1].is_trained
    /\ \E t \in Threads : req[t].kind = "predict" /\ req[t].status = 200

\* C18: once no retrain is in progress, and every retrain that ran saved
\* its artifact and assigned the global, the file at MODEL_PATH holds the
\* artifact of the predictor that is published.
C18_PersistedIsPublished ==
    ( /\ model_loaded
      /\ \E t \in Threads : req[t].kind = "retrain"
      /\ \A t \in Threads :
            req[t].kind = "retrain" => req[t].pc = "done" /\ req[t].status = 200 )
    => /\ model_file.readable
       /\ model_file.data = published[predictor].snap

====
